---- MODULE Spec2Model ----
(***************************************************************************)
(* A model of retailoptimizer.py: the RetailProblem class, which states    *)
(* an online purchase as a mixed-integer program (quantities per lure and  *)
(* retailer, a pay_shipping and an empty_order indicator per retailer),    *)
(* hands it to a solver and extracts the purchase plan and the bills.      *)
(*                                                                         *)
(* Money is counted in whole currency units.  A variable's value is kept   *)
(* in fixed point, in units of 1/Scale, so that the continuous quantity    *)
(* mode can hold fractions; an integer quantity k is the value k * Scale.  *)
(* Lures and retailers are named by their positions in the input lists.    *)
(* The solver is outside the program: solve() is modelled as the choice of *)
(* any assignment that is feasible and of least objective value.           *)
(***************************************************************************)
EXTENDS Integers, Sequences, FiniteSets, TLC

(* ------------------------------ bounds -------------------------------- *)

\* Resolution of a variable's value: values are multiples of 1/Scale.
Scale == 4

\* How far from an integer a solver may leave the value of an integer variable,
\* in units of 1/Scale (less than half a unit).
Tolerance == 1

\* Largest inventory of one lure at one retailer.
MaxInventory == 2

\* Largest desired quantity of one lure.
MaxDesired == 3

\* Largest free-shipping threshold.
MaxThreshold == 3

\* A quantity variable has no upper bound of its own (the inventory cap is a
\* constraint of the model); its domain is cut one above the largest cap.
QuantMax == MaxInventory + 1

\* The lengths an input list may have when the lists need not agree.
ListLengths == {1, 2}

\* Flat shipping fees, free-shipping thresholds.
ShippingValues == {0, 2}
ThresholdValues == {0, MaxThreshold}

(* --------------------------- status codes ----------------------------- *)

\* pulp's LpStatus codes, as the program compares them.
LpStatusNotSolved == 0
LpStatusOptimal == 1
LpStatusInfeasible == 0 - 1

\* Python's None, and an attribute that was never assigned.
None == [py |-> "None"]
Unset == [py |-> "unset"]

VARIABLES
  args,           \* the arguments given to RetailProblem(...)
  pc,             \* "new": not constructed, "raised": __init__ raised, "ready"
  self,           \* the problem data stored on the instance, or Unset
  model,          \* self.model: [status |-> ...], or Unset
  values,         \* the varValue of the model's variables: None or an assignment
  status,         \* self.status
  df_quantities,  \* self.df_quantities
  df_bills,       \* self.df_bills
  ret             \* what the last call of a query method returned or raised

vars == <<args, pc, self, model, values, status, df_quantities, df_bills, ret>>

(* ------------------------------ helpers ------------------------------- *)

RECURSIVE Sum(_, _)
\* lpSum / Python's accumulation loops: the sum of f[1], ..., f[n].
Sum(f, n) == IF n = 0 THEN 0 ELSE f[n] + Sum(f, n - 1)

\* The least element of a non-empty set of integers.
Min(S) == CHOOSE x \in S : \A y \in S : x <= y

\* Python's int() of a non-negative value held in units of 1/Scale: truncation.
ToInt(v) == v \div Scale

(* ------------------------------ inputs -------------------------------- *)

\* The arguments of RetailProblem(...): lures and retailers are given by their
\* lengths, the other lists as sequences, drawn from the given sets of lists.
ArgsOf(nl, nr, Desired, Prices, Inventories, Shippings, Thresholds, integer) ==
  [ lures : {nl}, retailers : {nr},
    num_lures_to_buy : Desired,
    prices : Prices,
    inventory : Inventories,
    shipping : Shippings,
    free_shipping_threshold : Thresholds,
    can_buy_extra_lures_if_cheaper : BOOLEAN,
    num_lures_to_buy_is_integer : {integer} ]

\* One lure at two retailers, the first the cheaper one.
OneLureTwoRetailers(Desired, Inventories, integer) ==
  ArgsOf(1, 2,
         [1..1 -> Desired],
         {<<(<<1, 2>>)>>},
         Inventories,
         {<<s, s>> : s \in ShippingValues},
         [1..2 -> ThresholdValues],
         integer)

\* Two lures at one retailer, the first the cheaper one.
TwoLuresOneRetailer ==
  ArgsOf(2, 1,
         [1..2 -> 0..MaxDesired],
         {<<(<<1>>), (<<2>>)>>},
         {<<(<<i1>>), (<<MaxInventory>>)>> : i1 \in 0..MaxInventory},
         [1..1 -> ShippingValues],
         [1..1 -> ThresholdValues],
         TRUE)

\* Two lures at two retailers: each retailer is the cheaper one for one lure
\* and has one of each lure in stock.
TwoLuresTwoRetailers ==
  ArgsOf(2, 2,
         [1..2 -> 0..MaxDesired],
         {<<(<<1, 2>>), (<<2, 1>>)>>},
         {<<(<<1, 1>>), (<<1, 1>>)>>},
         {<<s, s>> : s \in ShippingValues},
         [1..2 -> ThresholdValues],
         TRUE)

\* Well-formed inputs in the integer quantity mode.
IntegerArgs ==
  OneLureTwoRetailers(0..MaxDesired,
                      {<<(<<i1, i2>>)>> : i1 \in 0..MaxInventory, i2 \in {0, 1}}, TRUE)
  \cup TwoLuresOneRetailer \cup TwoLuresTwoRetailers

\* Well-formed inputs in the continuous quantity mode.
ContinuousArgs ==
  OneLureTwoRetailers({1, MaxInventory},
                      {<<(<<i1, MaxInventory>>)>> : i1 \in {1, MaxInventory}}, FALSE)

\* Inputs whose lists need not agree in length.
AnyLengthArgs ==
  { [ lures |-> nl, retailers |-> nr,
      num_lures_to_buy |-> [i \in 1..nn |-> 1],
      prices |-> [i \in 1..np |-> [r \in 1..nr |-> 1]],
      inventory |-> [i \in 1..ni |-> [r \in 1..nr |-> 1]],
      shipping |-> [i \in 1..ns |-> 2],
      free_shipping_threshold |-> [i \in 1..nt |-> MaxThreshold],
      can_buy_extra_lures_if_cheaper |-> TRUE,
      num_lures_to_buy_is_integer |-> TRUE ]
    : nl \in ListLengths, nn \in ListLengths, np \in ListLengths, ni \in ListLengths,
      nr \in ListLengths, ns \in ListLengths, nt \in ListLengths }

(* ------------------------- the optimization model --------------------- *)

Lures(p) == 1..p.lures
Retailers(p) == 1..p.retailers

\* _compute_big_M_constants: M[r] = threshold + 1.
BigM(p) == [r \in Retailers(p) |-> p.free_shipping_threshold[r] + 1]

\* A slip in the big-M constants: N[r] is left at M[r], without the inventory
\* at r.
BigN_WithoutInventory(p) ==
  [r \in Retailers(p) |-> p.free_shipping_threshold[r] + 1]

\* _compute_big_M_constants: N[r] = threshold + 1 + sum of the inventory at r.
BigN(p) ==
  [r \in Retailers(p) |->
     p.free_shipping_threshold[r] + 1
       + Sum([l \in Lures(p) |-> p.inventory[l][r]], p.lures)]

\* The values a quantity variable may take: lower bound 0, no upper bound
\* (cut at QuantMax), integer or continuous.
QuantValues(p) ==
  IF p.num_lures_to_buy_is_integer
    THEN {k * Scale : k \in 0..QuantMax}
    ELSE 0..(QuantMax * Scale)

\* The number of lures ordered at retailer r, and their cost (units of 1/Scale).
OrderSize(p, q, r) == Sum([l \in Lures(p) |-> q[l][r]], p.lures)
OrderCost(p, q, r) == Sum([l \in Lures(p) |-> p.prices[l][r] * q[l][r]], p.lures)

\* The objective, in units of 1/Scale: cost of items plus cost of shipping.
Objective(p, a) ==
  Sum([r \in Retailers(p) |->
         OrderCost(p, a.quant, r) + Scale * p.shipping[r] * a.pay_shipping[r]],
      p.retailers)

\* A slip in the inventory constraint: the cap of a lure at a retailer is taken
\* to be the lure's inventory over all retailers.
ConstraintInventory_CapIsTotalStock(p, q) ==
  \A l \in Lures(p), r \in Retailers(p) :
    q[l][r] <= Scale * Sum(p.inventory[l], p.retailers)

\* constraint_inventory_{l}_{r}
ConstraintInventory(p, q) ==
  \A l \in Lures(p), r \in Retailers(p) : q[l][r] <= Scale * p.inventory[l][r]

\* A slip in the demand constraint: the total is bounded from above.
ConstraintTotalQuantity_AtMost(p, q) ==
  \A l \in Lures(p) : Sum(q[l], p.retailers) <= Scale * p.num_lures_to_buy[l]

\* constraint_total_quantity_{l}
ConstraintTotalQuantity(p, q) ==
  \A l \in Lures(p) :
    LET total == Sum(q[l], p.retailers)
    IN  IF p.can_buy_extra_lures_if_cheaper
          THEN total >= Scale * p.num_lures_to_buy[l]
          ELSE total = Scale * p.num_lures_to_buy[l]

\* A slip in the empty-order constraint: the factor (1 - empty_order) is left out.
ConstraintEmptyOrders_NoIndicator(p, r, size, empty) ==
  size <= Scale * p.N[r]

\* constraint_empty_orders_no_shipping_fee_{r}, for an order of `size` units
\* at r and the value `empty` of empty_order[r].
ConstraintEmptyOrders(p, r, size, empty) ==
  size <= Scale * p.N[r] * (1 - empty)

\* A slip in the shipping constraint: the threshold is put inside the sum over
\* the lures, so it is counted once per lure.
ConstraintPayForShipping_ThresholdInSum(p, r, cost, pay, empty) ==
  cost - p.lures * Scale * p.free_shipping_threshold[r] + Scale * p.M[r] * pay
    >= 0 - Scale * p.N[r] * empty

\* A slip in the shipping constraint: the comparison is strict, so an order that
\* meets the threshold exactly still pays.
ConstraintPayForShipping_Strict(p, r, cost, pay, empty) ==
  cost - Scale * p.free_shipping_threshold[r] + Scale * p.M[r] * pay
    > 0 - Scale * p.N[r] * empty

\* A slip in the shipping constraint: the right-hand side that releases an empty
\* order is left out.
ConstraintPayForShipping_NoRelease(p, r, cost, pay, empty) ==
  cost - Scale * p.free_shipping_threshold[r] + Scale * p.M[r] * pay >= 0

\* constraint_pay_for_shipping_{r}, for an order of subtotal `cost` at r and the
\* values `pay` of pay_shipping[r] and `empty` of empty_order[r].
ConstraintPayForShipping(p, r, cost, pay, empty) ==
  cost - Scale * p.free_shipping_threshold[r] + Scale * p.M[r] * pay
    >= 0 - Scale * p.N[r] * empty

\* The quantity plans that satisfy the constraints on the quantities alone.
FeasiblePlans(p) ==
  {q \in [Lures(p) -> [Retailers(p) -> QuantValues(p)]] :
     ConstraintInventory(p, q) /\ ConstraintTotalQuantity(p, q)}

\* The values of the binary variables that satisfy the shipping constraints
\* together with plan q.
FeasibleIndicators(p, q) ==
  LET size == [r \in Retailers(p) |-> OrderSize(p, q, r)]
      cost == [r \in Retailers(p) |-> OrderCost(p, q, r)]
  IN  {i \in [pay_shipping : [Retailers(p) -> {0, 1}],
              empty_order : [Retailers(p) -> {0, 1}]] :
         \A r \in Retailers(p) :
           /\ ConstraintEmptyOrders(p, r, size[r], i.empty_order[r])
           /\ ConstraintPayForShipping(p, r, cost[r], i.pay_shipping[r],
                                       i.empty_order[r])}

\* The assignments that satisfy every constraint of the model.
FeasibleSet(p) ==
  UNION { { [quant |-> q, pay_shipping |-> i.pay_shipping,
             empty_order |-> i.empty_order] : i \in FeasibleIndicators(p, q) }
          : q \in FeasiblePlans(p) }

\* What a solver may return on a feasible model: the assignments of least objective.
OptimalSet(F, p) ==
  LET cost == [a \in F |-> Objective(p, a)]
      best == Min({cost[a] : a \in F})
  IN  {a \in F : cost[a] = best}


\* What the variables may hold after a solve that found the model infeasible:
\* nothing, or whatever point the solver stopped at (here: nothing ordered, or
\* the whole inventory ordered).
Leftovers(p) ==
  { None,
    [ quant |-> [l \in Lures(p) |-> [r \in Retailers(p) |-> 0]],
      pay_shipping |-> [r \in Retailers(p) |-> 0],
      empty_order |-> [r \in Retailers(p) |-> 1] ],
    [ quant |-> [l \in Lures(p) |-> [r \in Retailers(p) |-> Scale * p.inventory[l][r]]],
      pay_shipping |-> [r \in Retailers(p) |-> 1],
      empty_order |-> [r \in Retailers(p) |-> 0] ] }

\* What a solver that works in floating point may leave in the variables for
\* the assignment a: in the integer quantity mode each quantity is within
\* Tolerance of its integer value (and not below the variable's lower bound).
WithinTolerance(p, a) ==
  IF p.num_lures_to_buy_is_integer
    THEN { [a EXCEPT !.quant =
              [l \in Lures(p) |-> [r \in Retailers(p) |->
                 IF a.quant[l][r] + d[l][r] < 0 THEN 0 ELSE a.quant[l][r] + d[l][r]]]] :
             d \in [Lures(p) -> [Retailers(p) -> (0 - Tolerance)..Tolerance]] }
    ELSE {a}

(* --------------------------- result extraction ------------------------ *)

\* The dict of int(varValue) per lure and retailer.
QuantitiesAsInt(p, v) ==
  [l \in Lures(p) |-> [r \in Retailers(p) |-> ToInt(v.quant[l][r])]]

\* df_quantities: the integer quantities and, per lure, their total.
QuantitiesFrame(p, v) ==
  LET quant == QuantitiesAsInt(p, v)
  IN  [ quant |-> quant,
        total_number |-> [l \in Lures(p) |-> Sum(quant[l], p.retailers)] ]

\* df_bills: per retailer the shipping bill, the item bill and their sum, and
\* the 'total' column summing each row over the retailers.
BillsFrame(p, v) ==
  LET quant == QuantitiesAsInt(p, v)
      shipping_bill == [r \in Retailers(p) |-> v.pay_shipping[r] * p.shipping[r]]
      item_bill ==
        [r \in Retailers(p) |->
           Sum([l \in Lures(p) |-> quant[l][r] * p.prices[l][r]], p.lures)]
      total_bill == [r \in Retailers(p) |-> shipping_bill[r] + item_bill[r]]
  IN  [ total_bill |-> total_bill,
        shipping_bill |-> shipping_bill,
        item_bill |-> item_bill,
        total |-> [ total_bill |-> Sum(total_bill, p.retailers),
                    shipping_bill |-> Sum(shipping_bill, p.retailers),
                    item_bill |-> Sum(item_bill, p.retailers) ] ]

\* A slip in the extraction: it is gated on the variables holding values
\* instead of on the status.
GenerateDataframes_GatedOnValues(p, st, v) ==
  IF v # None
    THEN [df_quantities |-> QuantitiesFrame(p, v), df_bills |-> BillsFrame(p, v)]
    ELSE [df_quantities |-> None, df_bills |-> None]

\* _generate_dataframes_storing_results: the two frames when the model's status
\* is Optimal, None for both otherwise.
GenerateDataframes(p, st, v) ==
  IF st = LpStatusOptimal
    THEN [df_quantities |-> QuantitiesFrame(p, v), df_bills |-> BillsFrame(p, v)]
    ELSE [df_quantities |-> None, df_bills |-> None]

\* convert_model_variable_quantities_to_dict: the dict when the model's status
\* is Optimal, None otherwise.
ConvertedQuantities(p, st, v) ==
  IF st = LpStatusOptimal THEN [dict |-> QuantitiesAsInt(p, v)] ELSE None

\* A slip in the surplus report: the comparison is not strict, so a lure bought
\* in exactly the desired number is reported with an excess of 0.
AdditionalItems_NotStrict(p, v) ==
  IF v = None THEN [raised |-> "TypeError"]
  ELSE LET bought == [l \in Lures(p) |-> Sum(v.quant[l], p.retailers)]
           extra == {l \in Lures(p) : bought[l] >= Scale * p.num_lures_to_buy[l]}
       IN  [returned |-> [l \in extra |-> bought[l] - Scale * p.num_lures_to_buy[l]]]

\* list_additonal_items_ordered: per lure bought beyond the desired number, the
\* excess (units of 1/Scale); a TypeError when a variable holds no value.
AdditionalItems(p, v) ==
  IF v = None THEN [raised |-> "TypeError"]
  ELSE LET bought == [l \in Lures(p) |-> Sum(v.quant[l], p.retailers)]
           extra == {l \in Lures(p) : bought[l] > Scale * p.num_lures_to_buy[l]}
       IN  [returned |-> [l \in extra |-> bought[l] - Scale * p.num_lures_to_buy[l]]]

(* ------------------------------ actions ------------------------------- *)

\* A slip in the length checks: num_lures_to_buy is not compared with lures.
LengthError_DesiredUnchecked(a) ==
  IF Len(a.prices) # a.lures
    THEN [message |-> "Lengths of lures and prices are inconsistent."]
  ELSE IF Len(a.inventory) # a.lures
    THEN [message |-> "Lenghts of lures and inventory are inconsistent."]
  ELSE IF Len(a.shipping) # a.retailers
    THEN [message |-> "Lengths of retailers and shipping are inconsistent"]
  ELSE IF Len(a.free_shipping_threshold) # Len(a.shipping)
    THEN [message |-> "Lenths of retailers and free_shipping_threshold are inconsistent"]
  ELSE None

\* The length checks of __init__: the message of the ValueError raised, or None.
LengthError(a) ==
  IF Len(a.num_lures_to_buy) # a.lures
    THEN [message |-> "Lengths of lures and num_lures_to_buy are inconsistent."]
  ELSE IF Len(a.prices) # a.lures
    THEN [message |-> "Lengths of lures and prices are inconsistent."]
  ELSE IF Len(a.inventory) # a.lures
    THEN [message |-> "Lenghts of lures and inventory are inconsistent."]
  ELSE IF Len(a.shipping) # a.retailers
    THEN [message |-> "Lengths of retailers and shipping are inconsistent"]
  ELSE IF Len(a.free_shipping_threshold) # Len(a.shipping)
    THEN [message |-> "Lenths of retailers and free_shipping_threshold are inconsistent"]
  ELSE None

Init ==
  /\ args \in IntegerArgs \cup ContinuousArgs \cup AnyLengthArgs
  /\ pc = "new"
  /\ self = Unset
  /\ model = Unset
  /\ values = None
  /\ status = Unset
  /\ df_quantities = Unset
  /\ df_bills = Unset
  /\ ret = Unset

\* RetailProblem.__init__: validate, store the data and M, N, build the model.
Construct ==
  /\ pc = "new"
  /\ IF LengthError(args) # None
       THEN /\ pc' = "raised"
            /\ ret' = [call |-> "__init__", raised |-> "ValueError",
                       message |-> LengthError(args).message]
            /\ UNCHANGED <<self, model, values>>
       ELSE /\ pc' = "ready"
            /\ self' = args @@ [M |-> BigM(args), N |-> BigN(args)]
            /\ model' = [status |-> LpStatusNotSolved]
            /\ values' = None
            /\ ret' = [call |-> "__init__", returned |-> None]
  /\ UNCHANGED <<args, status, df_quantities, df_bills>>

\* initialize_optimization_problem: a new LpProblem with new variables.
InitializeOptimizationProblem ==
  /\ pc = "ready"
  /\ model' = [status |-> LpStatusNotSolved]
  /\ values' = None
  /\ ret' = [call |-> "initialize_optimization_problem", returned |-> None]
  /\ UNCHANGED <<args, pc, self, status, df_quantities, df_bills>>

\* solve: run the solver, keep its status, then _generate_dataframes_storing_results.
Solve ==
  /\ pc = "ready"
  /\ LET F == FeasibleSet(self)
     IN  IF F = {}
           THEN /\ model' = [status |-> LpStatusInfeasible]
                /\ values' \in Leftovers(self)
           ELSE /\ model' = [status |-> LpStatusOptimal]
                /\ values' \in OptimalSet(F, self)
  /\ status' = model'.status
  /\ LET frames == GenerateDataframes(self, model'.status, values')
     IN  /\ df_quantities' = frames.df_quantities
         /\ df_bills' = frames.df_bills
  /\ ret' = [call |-> "solve", returned |-> None]
  /\ UNCHANGED <<args, pc, self>>

\* solve, with a solver that leaves each integer variable within Tolerance of
\* the integer it found.
SolveWithinTolerance ==
  /\ pc = "ready"
  /\ LET F == FeasibleSet(self)
     IN  IF F = {}
           THEN /\ model' = [status |-> LpStatusInfeasible]
                /\ values' \in Leftovers(self)
           ELSE /\ model' = [status |-> LpStatusOptimal]
                /\ \E a \in OptimalSet(F, self) : values' \in WithinTolerance(self, a)
  /\ status' = model'.status
  /\ LET frames == GenerateDataframes(self, model'.status, values')
     IN  /\ df_quantities' = frames.df_quantities
         /\ df_bills' = frames.df_bills
  /\ ret' = [call |-> "solve", returned |-> None]
  /\ UNCHANGED <<args, pc, self>>

\* convert_model_variable_quantities_to_dict
ConvertModelVariableQuantitiesToDict ==
  /\ pc = "ready"
  /\ ret' = [call |-> "convert_model_variable_quantities_to_dict",
             returned |-> ConvertedQuantities(self, model.status, values)]
  /\ UNCHANGED <<args, pc, self, model, values, status, df_quantities, df_bills>>

\* list_additonal_items_ordered
ListAdditonalItemsOrdered ==
  /\ pc = "ready"
  /\ ret' = [call |-> "list_additonal_items_ordered"] @@ AdditionalItems(self, values)
  /\ UNCHANGED <<args, pc, self, model, values, status, df_quantities, df_bills>>

Next ==
  \/ Construct
  \/ InitializeOptimizationProblem
  \/ Solve
  \/ ConvertModelVariableQuantitiesToDict
  \/ ListAdditonalItemsOrdered

Spec == Init /\ [][Next]_vars

\* The same program run with a floating-point solver, on the problems of one
\* lure at two retailers in the integer quantity mode.
InitTolerance ==
  /\ Init
  /\ args \in OneLureTwoRetailers(0..MaxDesired,
                                  {<<(<<i1, 1>>)>> : i1 \in 0..MaxInventory}, TRUE)

NextTolerance ==
  \/ Construct
  \/ InitializeOptimizationProblem
  \/ SolveWithinTolerance
  \/ ConvertModelVariableQuantitiesToDict
  \/ ListAdditonalItemsOrdered

SpecTolerance == InitTolerance /\ [][NextTolerance]_vars

(* ------------------------------ claims -------------------------------- *)

\* The instance holds a model whose last solve ended Optimal.
SolvedOptimal == pc = "ready" /\ model.status = LpStatusOptimal

\* The instance holds a freshly built model (nothing was called since).
JustBuilt ==
  pc = "ready" /\ ret.call \in {"__init__", "initialize_optimization_problem"}

\* What the solver's values say of retailer r: units ordered, item subtotal
\* (both in units of 1/Scale).
OrderedAt(r) == OrderSize(self, values.quant, r)
SubtotalAt(r) == OrderCost(self, values.quant, r)

\* The business rule, on integer plans in whole units: the fee of retailer r is
\* due iff the order there is non-empty and its subtotal is below the threshold.
FeeDue(p, q, r) ==
  /\ Sum([l \in Lures(p) |-> q[l][r]], p.lures) > 0
  /\ Sum([l \in Lures(p) |-> p.prices[l][r] * q[l][r]], p.lures)
       < p.free_shipping_threshold[r]

BusinessCost(p, q) ==
  Sum([r \in Retailers(p) |->
         Sum([l \in Lures(p) |-> p.prices[l][r] * q[l][r]], p.lures)
           + (IF FeeDue(p, q, r) THEN p.shipping[r] ELSE 0)],
      p.retailers)

\* The integer plans within every inventory cap that meet the demand.
AdmissiblePlans(p) ==
  {q \in [Lures(p) -> [Retailers(p) -> 0..QuantMax]] :
     /\ \A l \in Lures(p), r \in Retailers(p) : q[l][r] <= p.inventory[l][r]
     /\ \A l \in Lures(p) :
          IF p.can_buy_extra_lures_if_cheaper
            THEN Sum(q[l], p.retailers) >= p.num_lures_to_buy[l]
            ELSE Sum(q[l], p.retailers) = p.num_lures_to_buy[l]}

\* C1: in the integer quantity mode, whenever solve() ends Optimal the
\* objective value is the least business cost (items plus the fee of every
\* retailer with a non-empty order below its threshold) over all integer plans
\* that respect the inventory caps and the demand constraint of the mode.
C1_ObjectiveIsLeastBusinessCost ==
  (SolvedOptimal /\ self.num_lures_to_buy_is_integer) =>
    LET plans == AdmissiblePlans(self)
    IN  /\ plans # {}
        /\ Objective(self, values)
             = Scale * Min({BusinessCost(self, q) : q \in plans})

\* C1 witness: an Optimal integer solve that buys more of a lure than desired
\* (which only pays when it saves a shipping fee).
C1_Witness ==
  /\ SolvedOptimal /\ self.num_lures_to_buy_is_integer /\ ret.call = "solve"
  /\ \E l \in Lures(self) :
       Sum(values.quant[l], self.retailers) > Scale * self.num_lures_to_buy[l]

\* C2: in every assignment that satisfies the constraints of the built model,
\* a retailer with a non-empty order whose subtotal is below its threshold has
\* pay_shipping = 1.
C2_BelowThresholdForcesPayShipping ==
  JustBuilt =>
    \A a \in FeasibleSet(self) : \A r \in Retailers(self) :
      (/\ OrderSize(self, a.quant, r) > 0
       /\ OrderCost(self, a.quant, r) < Scale * self.free_shipping_threshold[r])
        => a.pay_shipping[r] = 1

\* C2 witness: a built model with a feasible assignment that orders from a
\* retailer below its threshold.
C2_Witness ==
  /\ JustBuilt
  /\ \E a \in FeasibleSet(self) : \E r \in Retailers(self) :
       /\ OrderSize(self, a.quant, r) > 0
       /\ OrderCost(self, a.quant, r) < Scale * self.free_shipping_threshold[r]

\* C3 as claimed: in every Optimal assignment, pay_shipping[r] = 0 whenever the
\* subtotal at r is at least the threshold of r.
C3_Claimed ==
  SolvedOptimal =>
    \A r \in Retailers(self) :
      SubtotalAt(r) >= Scale * self.free_shipping_threshold[r]
        => values.pay_shipping[r] = 0

\* C3 as amended: in every Optimal assignment, pay_shipping[r] = 0 whenever the
\* subtotal at r is at least the threshold of r and the fee of r is positive.
C3_NoFeeAtOrAboveThreshold ==
  SolvedOptimal =>
    \A r \in Retailers(self) :
      (/\ self.shipping[r] > 0
       /\ SubtotalAt(r) >= Scale * self.free_shipping_threshold[r])
        => values.pay_shipping[r] = 0

\* C3 witness: an Optimal solve where a non-empty order at a retailer with a
\* positive fee and a positive threshold meets the threshold exactly.
C3_Witness ==
  /\ SolvedOptimal /\ ret.call = "solve"
  /\ \E r \in Retailers(self) :
       /\ self.shipping[r] > 0
       /\ self.free_shipping_threshold[r] > 0
       /\ SubtotalAt(r) = Scale * self.free_shipping_threshold[r]
       /\ values.pay_shipping[r] = 0

\* C4 as claimed: in every Optimal assignment, pay_shipping[r] = 0 whenever
\* empty_order[r] = 1.
C4_Claimed ==
  SolvedOptimal =>
    \A r \in Retailers(self) :
      values.empty_order[r] = 1 => values.pay_shipping[r] = 0

\* C4 as amended: in every Optimal assignment, pay_shipping[r] = 0 whenever
\* empty_order[r] = 1 and the fee of r is positive.
C4_EmptyOrderPaysNoFee ==
  SolvedOptimal =>
    \A r \in Retailers(self) :
      (self.shipping[r] > 0 /\ values.empty_order[r] = 1)
        => values.pay_shipping[r] = 0

\* C4 witness: an Optimal solve with an empty order, marked empty, at a
\* retailer with a positive fee and a positive threshold, while another
\* retailer gets an order.
C4_Witness ==
  /\ SolvedOptimal /\ ret.call = "solve"
  /\ \E r \in Retailers(self) :
       /\ self.shipping[r] > 0
       /\ self.free_shipping_threshold[r] > 0
       /\ values.empty_order[r] = 1
       /\ OrderedAt(r) = 0
       /\ values.pay_shipping[r] = 0
  /\ \E r \in Retailers(self) : OrderedAt(r) > 0

\* C5 as claimed: in either quantity mode, whenever solve() ends Optimal, the
\* quantities of the extracted plan sum per lure to at least the desired
\* number, and to exactly that number when buying extra is not allowed.
C5_Claimed ==
  SolvedOptimal =>
    \A l \in Lures(self) :
      /\ df_quantities.total_number[l] >= self.num_lures_to_buy[l]
      /\ ~self.can_buy_extra_lures_if_cheaper
           => df_quantities.total_number[l] = self.num_lures_to_buy[l]

\* C6: whenever solve() ends Optimal, every purchased quantity, as the solver
\* set it and as the plan holds it, is at least 0 and at most the inventory of
\* that lure at that retailer.
C6_QuantityWithinInventory ==
  SolvedOptimal =>
    \A l \in Lures(self), r \in Retailers(self) :
      /\ 0 <= values.quant[l][r]
      /\ values.quant[l][r] <= Scale * self.inventory[l][r]
      /\ 0 <= df_quantities.quant[l][r]
      /\ df_quantities.quant[l][r] <= self.inventory[l][r]

\* C6 witness: an Optimal solve that buys a lure at two retailers, taking the
\* whole inventory of one of them.
C6_Witness ==
  /\ SolvedOptimal /\ ret.call = "solve"
  /\ \E l \in Lures(self) : \E r1, r2 \in Retailers(self) :
       /\ r1 # r2
       /\ values.quant[l][r1] = Scale * self.inventory[l][r1]
       /\ values.quant[l][r1] > 0
       /\ values.quant[l][r2] > 0

\* Some lure is wanted in a larger number than all retailers stock together.
DemandExceedsInventory ==
  \E l \in Lures(self) :
    self.num_lures_to_buy[l] > Sum(self.inventory[l], self.retailers)

\* C7: when the desired number of some lure exceeds its inventory summed over
\* the retailers, solve() returns without raising and leaves the status
\* Infeasible, in either demand mode.
C7_ShortInventoryIsInfeasible ==
  (pc = "ready" /\ ret.call = "solve" /\ DemandExceedsInventory) =>
    /\ "raised" \notin DOMAIN ret
    /\ model.status = LpStatusInfeasible
    /\ status = LpStatusInfeasible

\* C7 witness: solve() has returned on a problem with two retailers, both with
\* stock, whose joint inventory of a lure is short of the demand.
C7_Witness ==
  /\ pc = "ready" /\ ret.call = "solve" /\ DemandExceedsInventory
  /\ self.retailers = 2
  /\ \A r \in Retailers(self) : self.inventory[1][r] > 0

\* C8: after a solve() that ends with a status other than Optimal, the plan
\* and the bills are absent (df_quantities and df_bills are None), and
\* convert_model_variable_quantities_to_dict() returns None.
C8_NoPlanUnlessOptimal ==
  /\ (pc = "ready" /\ model.status \notin {LpStatusOptimal, LpStatusNotSolved})
       => (df_quantities = None /\ df_bills = None)
  /\ (/\ pc = "ready"
      /\ ret.call = "convert_model_variable_quantities_to_dict"
      /\ model.status # LpStatusOptimal)
       => ret.returned = None

\* C8 witness: convert_model_variable_quantities_to_dict() was called after an
\* Infeasible solve that left values in the variables.
C8_Witness ==
  /\ pc = "ready"
  /\ ret.call = "convert_model_variable_quantities_to_dict"
  /\ model.status = LpStatusInfeasible
  /\ values # None

\* C9 as claimed: while the model's status is not Optimal,
\* list_additonal_items_ordered() produces no mapping computed from the
\* variables' values.
C9_Claimed ==
  (/\ pc = "ready"
   /\ ret.call = "list_additonal_items_ordered"
   /\ model.status # LpStatusOptimal)
    => "returned" \notin DOMAIN ret

\* The length pairs the constructor is to compare, as the claim lists them.
LengthsDiffer ==
  \/ Len(args.num_lures_to_buy) # args.lures
  \/ Len(args.prices) # args.lures
  \/ Len(args.inventory) # args.lures
  \/ Len(args.shipping) # args.retailers
  \/ Len(args.free_shipping_threshold) # args.retailers

\* C10: the constructor raises whenever one of the five length pairs differs,
\* before anything is stored on the instance or a model is built, and gets
\* past validation when all five agree.
C10_LengthMismatchRaisesFirst ==
  pc # "new" =>
    /\ LengthsDiffer <=> pc = "raised"
    /\ pc = "raised" =>
         /\ ret.call = "__init__" /\ ret.raised = "ValueError"
         /\ self = Unset /\ model = Unset /\ values = None
         /\ status = Unset /\ df_quantities = Unset /\ df_bills = Unset
    /\ pc = "ready" => (self # Unset /\ model # Unset)

\* C10 witness: the constructor raised on an input whose only mismatch is the
\* length of free_shipping_threshold.
C10_Witness ==
  /\ pc = "raised"
  /\ Len(args.num_lures_to_buy) = args.lures
  /\ Len(args.prices) = args.lures
  /\ Len(args.inventory) = args.lures
  /\ Len(args.shipping) = args.retailers
  /\ Len(args.free_shipping_threshold) # args.retailers

\* The units of lure l the solver's values buy over all retailers (units of
\* 1/Scale).
PurchasedTotal(l) == Sum(values.quant[l], self.retailers)

\* list_additonal_items_ordered() was the last call and the model is Optimal.
SurplusReported ==
  SolvedOptimal /\ ret.call = "list_additonal_items_ordered"

\* C11: after an Optimal solve, list_additonal_items_ordered() returns a mapping
\* whose keys are exactly the lures bought in a total strictly above the desired
\* number, each mapped to that total minus the desired number; a lure with no
\* surplus is no key, and in the exact-demand mode the mapping is empty.
C11_SurplusMappingIsExact ==
  SurplusReported =>
    /\ "returned" \in DOMAIN ret
    /\ \A l \in Lures(self) :
         /\ l \in DOMAIN ret.returned
              <=> PurchasedTotal(l) > Scale * self.num_lures_to_buy[l]
         /\ l \in DOMAIN ret.returned
              => ret.returned[l] = PurchasedTotal(l) - Scale * self.num_lures_to_buy[l]
    /\ DOMAIN ret.returned \subseteq Lures(self)
    /\ ~self.can_buy_extra_lures_if_cheaper => DOMAIN ret.returned = {}

\* C11 witness: of two lures, the report after an Optimal solve names one with
\* a surplus of one unit and leaves out the other, which was bought as desired.
C11_Witness ==
  /\ SurplusReported
  /\ self.lures = 2
  /\ \E l1, l2 \in Lures(self) :
       /\ l1 \in DOMAIN ret.returned /\ ret.returned[l1] = Scale
       /\ l2 \notin DOMAIN ret.returned /\ PurchasedTotal(l2) > 0

\* C12 as claimed: after an Optimal solve, in either quantity mode, the bills
\* give for every retailer a shipping charge of pay_shipping[r] times the flat
\* fee (0 or the fee) and a total of item subtotal plus shipping charge, and
\* the grand total (the 'total' column of the total_bill row) equals the
\* model's objective value.
C12_Claimed ==
  SolvedOptimal =>
    /\ \A r \in Retailers(self) :
         /\ df_bills.shipping_bill[r] = values.pay_shipping[r] * self.shipping[r]
         /\ df_bills.shipping_bill[r] \in {0, self.shipping[r]}
         /\ df_bills.total_bill[r]
              = df_bills.item_bill[r] + df_bills.shipping_bill[r]
    /\ Scale * df_bills.total.total_bill = Objective(self, values)

\* Value v of a variable (units of 1/Scale) is less than 1/2 away from integer k.
NearestIs(v, k) == 2 * v > (2 * k - 1) * Scale /\ 2 * v < (2 * k + 1) * Scale

\* C13 as claimed: in the integer quantity mode, each quantity of the extracted
\* plan (the quantities frame and the dict of
\* convert_model_variable_quantities_to_dict) is the solver's value of the
\* variable rounded to the nearest integer: k for every value within 1/2 of k.
C13_Claimed ==
  (SolvedOptimal /\ self.num_lures_to_buy_is_integer) =>
    \A l \in Lures(self), r \in Retailers(self) : \A k \in 0..(QuantMax + 1) :
      NearestIs(values.quant[l][r], k) =>
        /\ df_quantities.quant[l][r] = k
        /\ ret.call = "convert_model_variable_quantities_to_dict"
             => ret.returned.dict[l][r] = k

\* C14: the constants M[r] = threshold + 1 and N[r] = M[r] + inventory at r cut
\* off no legitimate plan: every quantity plan within the inventory caps that
\* meets the demand constraint extends to values of pay_shipping and
\* empty_order satisfying both shipping constraints, and solve() ends Optimal
\* whenever no lure is wanted in a larger number than the retailers stock.
C14_BigMCutsOffNoPlan ==
  /\ JustBuilt =>
       \A q \in FeasiblePlans(self) : FeasibleIndicators(self, q) # {}
  /\ (pc = "ready" /\ ret.call = "solve" /\ ~DemandExceedsInventory)
       => (model.status = LpStatusOptimal /\ status = LpStatusOptimal)

\* C14 witness: solve() ended Optimal on a problem that wants the whole stock
\* of every lure, with an order at some retailer of more units than M[r].
C14_Witness ==
  /\ pc = "ready" /\ ret.call = "solve" /\ model.status = LpStatusOptimal
  /\ \A l \in Lures(self) :
       self.num_lures_to_buy[l] = Sum(self.inventory[l], self.retailers)
  /\ \E r \in Retailers(self) : OrderedAt(r) > Scale * self.M[r]

\* C15 as claimed: in every state reached by calls of
\* initialize_optimization_problem() and solve() after construction, a plan or
\* a bill is held (df_quantities or df_bills is a frame) only if the current
\* model's status is Optimal.
C15_Claimed ==
  pc = "ready" =>
    ((df_quantities \notin {None, Unset} \/ df_bills \notin {None, Unset})
       => model.status = LpStatusOptimal)
====
